---------------------------- MODULE Spec2Model ----------------------------
(***************************************************************************)
(* slowjson: a recursive-descent parser for a JSON-like grammar that       *)
(* records, for every node, the source span it was parsed from, and a      *)
(* renderer (DebugContext) that prints the source lines around a node.     *)
(*                                                                         *)
(* The parser is modelled as a machine with an explicit call stack: one    *)
(* action per straight-line block of a grammar function, between the       *)
(* calls it makes to other grammar functions.  Text is modelled by TLA+    *)
(* strings (sequences of characters); every rune of the model's alphabet   *)
(* is ASCII, so Go's byte length and rune length of a line agree.          *)
(***************************************************************************)
EXTENDS Integers, Sequences, FiniteSets, TLC

VARIABLES
    runes,      \* Parser.runes / Parser.source / Node.Source: the input text
    pos,        \* Parser.pos (0-based index of the next rune)
    line,       \* Parser.line (1-based)
    col,        \* Parser.col (1-based)
    stack,      \* the Go call stack of grammar functions, innermost last
    ret,        \* the (node, err) pair the last returning function handed back
    phase,      \* "new": constructed; "parsing": inside Parse; "done": returned
    result,     \* what Parse returned
    dbg         \* what the last DebugContext call returned

vars == <<runes, pos, line, col, stack, ret, phase, result, dbg>>

---------------------------------------------------------------------------
(* Bounds of the model. *)

\* Inputs of the parser: at most MaxFrags fragments of one fragment family.
MaxFrags == 4
\* Inputs of the termination specification: at most MaxLiveFrags fragments.
MaxLiveFrags == 3
\* Inputs of the cursor specification: at most MaxCursorLen runes.
MaxCursorLen == 4
\* Inputs of the renderer specification: at most MaxDebugFrags fragments.
MaxDebugFrags == 4
\* linesBefore and linesAfter range over 0 .. MaxContext.
MaxContext == 2

---------------------------------------------------------------------------
(* Node types, parser.go:12-20. *)

NodeUnknown == 0
NodeObject == 1
NodeArray == 2
NodeString == 3
NodeNumber == 4
NodeBoolean == 5
NodeNull == 6

\* A nil *Node.
NilNode == [Type |-> -1]

\* A nil error; an error is the string of its message.
NilErr == "<nil>"

\* The rune 0 that peekChar returns at end of input (no rune of the alphabet).
NUL == ""

\* &Node{Type: t, Source: p.source, StartLine: p.line, StartCol: p.col}: the
\* other fields hold Go's zero values.  Source is the variable runes.
NewNode(t, c) ==
    [Type |-> t, Value |-> "", Children |-> <<>>,
     StartLine |-> c.line, StartCol |-> c.col, EndLine |-> 0, EndCol |-> 0]

---------------------------------------------------------------------------
(* Text helpers (Go's string indexing and the strings package). *)

\* s[i-1] in Go: the i-th character, 1-based.
At(s, i) == SubSeq(s, i, i)

\* strings.HasPrefix
HasPrefix(s, prefix) ==
    /\ Len(s) >= Len(prefix)
    /\ SubSeq(s, 1, Len(prefix)) = prefix

\* strings.Contains
Contains(s, sub) ==
    \E i \in 1 .. (Len(s) - Len(sub) + 1) : SubSeq(s, i, i + Len(sub) - 1) = sub

\* unicode.IsDigit, on the ASCII runes of the alphabet
IsDigit(ch) == ch \in {"0", "1", "2", "3", "4", "5", "6", "7", "8", "9"}

\* strings.Repeat(" ", k)
RECURSIVE Spaces(_)
Spaces(k) == IF k <= 0 THEN "" ELSE " " \o Spaces(k - 1)

\* strings.Split(s, "\n"): never empty; "" splits to <<"">>.
RECURSIVE Split(_)
Split(s) ==
    IF \A i \in 1 .. Len(s) : At(s, i) # "\n"
    THEN <<s>>
    ELSE LET i == CHOOSE j \in 1 .. Len(s) :
                     /\ At(s, j) = "\n"
                     /\ \A k \in 1 .. (j - 1) : At(s, k) # "\n"
         IN  <<SubSeq(s, 1, i - 1)>> \o Split(SubSeq(s, i + 1, Len(s)))

---------------------------------------------------------------------------
(* The cursor: parser.go:375-418.  A cursor value c is <pos, line, col>.   *)

length == Len(runes)

Cur == [pos |-> pos, line |-> line, col |-> col]

SetCur(c) ==
    /\ pos' = c.pos
    /\ line' = c.line
    /\ col' = c.col

isEOF(c) == c.pos >= length

peekChar(c) == IF c.pos >= length THEN NUL ELSE At(runes, c.pos + 1)

\* consumeChar without the reset of the column after a newline.
consumeChar_noColumnReset(c) ==
    IF c.pos >= length
    THEN c
    ELSE LET ch == At(runes, c.pos + 1) IN
         IF ch = "\n"
         THEN [pos |-> c.pos + 1, line |-> c.line + 1, col |-> c.col + 1]
         ELSE [pos |-> c.pos + 1, line |-> c.line, col |-> c.col + 1]

consumeChar(c) ==
    IF c.pos >= length
    THEN c
    ELSE LET ch == At(runes, c.pos + 1) IN
         IF ch = "\n"
         THEN [pos |-> c.pos + 1, line |-> c.line + 1, col |-> 1]
         ELSE [pos |-> c.pos + 1, line |-> c.line, col |-> c.col + 1]

\* for i := 0; i < k; i++ { p.consumeChar() }
RECURSIVE consumeN(_, _)
consumeN(c, k) == IF k = 0 THEN c ELSE consumeN(consumeChar(c), k - 1)

RECURSIVE skipWhitespace(_)
skipWhitespace(c) ==
    IF isEOF(c)
    THEN c
    ELSE IF peekChar(c) \in {" ", "\t", "\n", "\r"}
         THEN skipWhitespace(consumeChar(c))
         ELSE c

remaining(c) == IF c.pos >= length THEN "" ELSE SubSeq(runes, c.pos + 1, length)

\* ErrorAt reporting the column 0-based.
ErrorAt_zeroBased(msg, c) ==
    msg \o " at line " \o ToString(c.line) \o " col " \o ToString(c.col - 1)

\* fmt.Errorf(msg + " at line %d col %d", p.line, p.col)
ErrorAt(msg, c) ==
    msg \o " at line " \o ToString(c.line) \o " col " \o ToString(c.col)

---------------------------------------------------------------------------
(* The call stack. *)

Frame(fn, pc, n, keyNode) == [fn |-> fn, pc |-> pc, n |-> n, keyNode |-> keyNode]

Top == stack[Len(stack)]

NoRet == [fn |-> "", node |-> NilNode, err |-> NilErr]

NoResult == [node |-> NilNode, err |-> NilErr]

NoDbg == [called |-> FALSE, panic |-> FALSE, out |-> <<>>, node |-> NilNode,
          linesBefore |-> 0, linesAfter |-> 0]

Running(fn, pc) ==
    /\ phase = "parsing"
    /\ stack # <<>>
    /\ Top.fn = fn
    /\ Top.pc = pc

\* return node, err: pop the frame of fn and hand the pair to the caller.
Return(fn, node, err, c) ==
    /\ stack' = SubSeq(stack, 1, Len(stack) - 1)
    /\ ret' = [fn |-> fn, node |-> node, err |-> err]
    /\ SetCur(c)

\* The running function moves on to pc (frame f) and calls callee.
Call(f, callee, c) ==
    /\ stack' = SubSeq(stack, 1, Len(stack) - 1)
                    \o <<f, Frame(callee, "entry", NilNode, NilNode)>>
    /\ ret' = NoRet
    /\ SetCur(c)

\* The running function moves on to pc (frame f) without a call.
Goto(f, c) ==
    /\ stack' = SubSeq(stack, 1, Len(stack) - 1) \o <<f>>
    /\ ret' = NoRet
    /\ SetCur(c)

\* return p.callee(): the callee runs in place of the running function.
TailCall(callee, c) == Goto(Frame(callee, "entry", NilNode, NilNode), c)

---------------------------------------------------------------------------
(* Parse and parseValue: parser.go:105-140. *)

\* n, err := p.parseValue()
Parse ==
    /\ phase = "new"
    /\ phase' = "parsing"
    /\ stack' = <<Frame("parseValue", "entry", NilNode, NilNode)>>
    /\ UNCHANGED <<runes, pos, line, col, ret, result, dbg>>

\* The rest of Parse, once parseValue has returned.
ParseReturn ==
    /\ phase = "parsing"
    /\ stack = <<>>
    /\ phase' = "done"
    /\ ret' = NoRet
    /\ IF ret.err # NilErr
       THEN /\ result' = [node |-> ret.node, err |-> ret.err]
            /\ UNCHANGED <<pos, line, col>>
       ELSE /\ result' = [node |-> ret.node, err |-> NilErr]
            /\ SetCur(skipWhitespace(Cur))
    /\ UNCHANGED <<runes, stack, dbg>>

parseValue ==
    /\ Running("parseValue", "entry")
    /\ LET c == skipWhitespace(Cur)
           ch == peekChar(c)
       IN  IF isEOF(c)
           THEN Return("parseValue", NilNode, "unexpected end of input", c)
           ELSE CASE ch = "{" -> TailCall("parseObject", c)
                  [] ch = "[" -> TailCall("parseArray", c)
                  [] ch = "\"" -> TailCall("parseString", c)
                  [] ch \in {"t", "f"} -> TailCall("parseBoolean", c)
                  [] ch = "n" -> TailCall("parseNull", c)
                  [] OTHER -> TailCall("parseNumber", c)
    /\ UNCHANGED <<runes, phase, result, dbg>>

---------------------------------------------------------------------------
(* parseString: parser.go:247-290. *)

\* The for loop of parseString from cursor c with sb accumulated so far; out
\* tells which way the loop was left.
RECURSIVE stringLoop(_, _)
stringLoop(c, sb) ==
    IF isEOF(c)
    THEN [c |-> c, sb |-> sb, out |-> "eof"]
    ELSE LET ch == peekChar(c) IN
         IF ch = "\""
         THEN [c |-> consumeChar(c), sb |-> sb, out |-> "closed"]
         ELSE IF ch = "\\"
              THEN LET c1 == consumeChar(c) IN
                   IF isEOF(c1)
                   THEN [c |-> c1, sb |-> sb, out |-> "eofEscape"]
                   ELSE stringLoop(consumeChar(c1), sb \o peekChar(c1))
              ELSE stringLoop(consumeChar(c), sb \o ch)

parseString ==
    /\ Running("parseString", "entry")
    /\ LET n == NewNode(NodeString, Cur)
           r == stringLoop(consumeChar(Cur), "")
           done == [n EXCEPT !.Value = r.sb, !.EndLine = r.c.line,
                                              !.EndCol = r.c.col]
       IN  CASE r.out = "eof" ->
                    Return("parseString", done,
                           "unexpected end of input in string", r.c)
             [] r.out = "eofEscape" ->
                    Return("parseString", n,
                           "unexpected end of input in string escape", r.c)
             [] OTHER -> Return("parseString", done, NilErr, r.c)
    /\ UNCHANGED <<runes, phase, result, dbg>>

---------------------------------------------------------------------------
(* parseNumber: parser.go:292-321. *)

\* numberLoop that does not take '+' for a number rune.
RECURSIVE numberLoop_noPlus(_, _)
numberLoop_noPlus(c, sb) ==
    IF isEOF(c)
    THEN [c |-> c, sb |-> sb]
    ELSE LET ch == peekChar(c) IN
         IF ch = "-" \/ ch = "." \/ IsDigit(ch)
         THEN numberLoop_noPlus(consumeChar(c), sb \o ch)
         ELSE [c |-> c, sb |-> sb]

RECURSIVE numberLoop(_, _)
numberLoop(c, sb) ==
    IF isEOF(c)
    THEN [c |-> c, sb |-> sb]
    ELSE LET ch == peekChar(c) IN
         IF ch = "-" \/ ch = "+" \/ ch = "." \/ IsDigit(ch)
         THEN numberLoop(consumeChar(c), sb \o ch)
         ELSE [c |-> c, sb |-> sb]

parseNumber ==
    /\ Running("parseNumber", "entry")
    /\ LET n == NewNode(NodeNumber, Cur)
           r == numberLoop(Cur, "")
       IN  Return("parseNumber",
                  [n EXCEPT !.Value = r.sb, !.EndLine = r.c.line,
                                            !.EndCol = r.c.col],
                  NilErr, r.c)
    /\ UNCHANGED <<runes, phase, result, dbg>>

---------------------------------------------------------------------------
(* parseBoolean and parseNull: parser.go:323-373. *)

\* Matched with a consuming loop one iteration short.
Matched_oneShort(n, word, c) ==
    LET c1 == consumeN(c, Len(word) - 1) IN
    [node |-> [n EXCEPT !.Value = word, !.EndLine = c1.line, !.EndCol = c1.col],
     err |-> NilErr, c |-> c1]

\* The literal word matched at c and consumed, ending the node.
Matched(n, word, c) ==
    LET c1 == consumeN(c, Len(word)) IN
    [node |-> [n EXCEPT !.Value = word, !.EndLine = c1.line, !.EndCol = c1.col],
     err |-> NilErr, c |-> c1]

\* booleanResult returning no node with its error.
booleanResult_nilOnError(c) ==
    LET n == NewNode(NodeBoolean, c) IN
    IF HasPrefix(remaining(c), "true")
    THEN Matched(n, "true", c)
    ELSE IF HasPrefix(remaining(c), "false")
         THEN Matched(n, "false", c)
         ELSE [node |-> NilNode, err |-> ErrorAt("invalid boolean", c), c |-> c]

booleanResult(c) ==
    LET n == NewNode(NodeBoolean, c) IN
    IF HasPrefix(remaining(c), "true")
    THEN Matched(n, "true", c)
    ELSE IF HasPrefix(remaining(c), "false")
         THEN Matched(n, "false", c)
         ELSE [node |-> n, err |-> ErrorAt("invalid boolean", c), c |-> c]

parseBoolean ==
    /\ Running("parseBoolean", "entry")
    /\ LET r == booleanResult(Cur) IN Return("parseBoolean", r.node, r.err, r.c)
    /\ UNCHANGED <<runes, phase, result, dbg>>

nullResult(c) ==
    LET n == NewNode(NodeNull, c) IN
    IF HasPrefix(remaining(c), "null")
    THEN Matched(n, "null", c)
    ELSE [node |-> n, err |-> ErrorAt("invalid null", c), c |-> c]

parseNull ==
    /\ Running("parseNull", "entry")
    /\ LET r == nullResult(Cur) IN Return("parseNull", r.node, r.err, r.c)
    /\ UNCHANGED <<runes, phase, result, dbg>>

---------------------------------------------------------------------------
(* parseObject: parser.go:142-202. *)

\* AppendChild that lets a key replace an earlier child of the same key.
AppendChild_dedup(n, child) ==
    IF /\ child.Type = NodeString
       /\ \E i \in 1 .. Len(n.Children) : n.Children[i].Value = child.Value
    THEN [n EXCEPT !.Children =
              [i \in 1 .. Len(@) |->
                  IF @[i].Value = child.Value THEN child ELSE @[i]]]
    ELSE [n EXCEPT !.Children = Append(@, child)]

\* n.Children = append(n.Children, child)
AppendChild(n, child) == [n EXCEPT !.Children = Append(@, child)]

\* n.EndLine = p.line; n.EndCol = p.col
Closed(n, c) == [n EXCEPT !.EndLine = c.line, !.EndCol = c.col]

\* Lines 143-161: up to the check for an empty object.
parseObject_entry ==
    /\ Running("parseObject", "entry")
    /\ LET n == NewNode(NodeObject, Cur)
           c == skipWhitespace(consumeChar(Cur))
       IN  IF peekChar(c) = "}"
           THEN Return("parseObject", Closed(n, consumeChar(c)), NilErr,
                       consumeChar(c))
           ELSE Goto(Frame("parseObject", "key", n, NilNode), c)
    /\ UNCHANGED <<runes, phase, result, dbg>>

\* Lines 164-168: the head of the loop, up to the call of parseString.
parseObject_key ==
    /\ Running("parseObject", "key")
    /\ LET c == skipWhitespace(Cur) IN
       IF peekChar(c) # "\""
       THEN Return("parseObject", Top.n, ErrorAt("expected string key", c), c)
       ELSE Call(Frame("parseObject", "afterKey", Top.n, NilNode),
                 "parseString", c)
    /\ UNCHANGED <<runes, phase, result, dbg>>

\* Lines 168-179: from parseString's return to the call of parseValue.
parseObject_afterKey ==
    /\ Running("parseObject", "afterKey")
    /\ LET c == skipWhitespace(Cur) IN
       IF ret.err # NilErr
       THEN Return("parseObject", Top.n, ret.err, Cur)
       ELSE IF peekChar(c) # ":"
            THEN Return("parseObject", Top.n,
                        ErrorAt("expected ':' after object key", c), c)
            ELSE Call(Frame("parseObject", "afterValue", Top.n, ret.node),
                      "parseValue", consumeChar(c))
    /\ UNCHANGED <<runes, phase, result, dbg>>

\* Lines 179-201: from parseValue's return to the end of the iteration.
parseObject_afterValue ==
    /\ Running("parseObject", "afterValue")
    /\ LET keyNode == [Top.keyNode EXCEPT !.Children = <<ret.node>>]
           n == AppendChild(Top.n, keyNode)
           c == skipWhitespace(Cur)
       IN  IF ret.err # NilErr
           THEN Return("parseObject", Top.n, ret.err, Cur)
           ELSE IF peekChar(c) = "}"
                THEN Return("parseObject", Closed(n, consumeChar(c)), NilErr,
                            consumeChar(c))
                ELSE IF peekChar(c) # ","
                     THEN Return("parseObject", n,
                                 ErrorAt("expected ',' or '}' in object", c), c)
                     ELSE Goto(Frame("parseObject", "key", n, NilNode),
                               consumeChar(c))
    /\ UNCHANGED <<runes, phase, result, dbg>>

---------------------------------------------------------------------------
(* parseArray: parser.go:204-245. *)

\* Lines 205-226: up to the first call of parseValue.
parseArray_entry ==
    /\ Running("parseArray", "entry")
    /\ LET n == NewNode(NodeArray, Cur)
           c == skipWhitespace(consumeChar(Cur))
       IN  IF peekChar(c) = "]"
           THEN Return("parseArray", Closed(n, consumeChar(c)), NilErr,
                       consumeChar(c))
           ELSE Call(Frame("parseArray", "afterValue", n, NilNode),
                     "parseValue", c)
    /\ UNCHANGED <<runes, phase, result, dbg>>

\* parseArray_afterValue that goes round the loop without consuming the ','.
parseArray_afterValue_noConsume ==
    /\ Running("parseArray", "afterValue")
    /\ LET n == AppendChild(Top.n, ret.node)
           c == skipWhitespace(Cur)
       IN  IF ret.err # NilErr
           THEN Return("parseArray", Top.n, ret.err, Cur)
           ELSE IF peekChar(c) = "]"
                THEN Return("parseArray", Closed(n, consumeChar(c)), NilErr,
                            consumeChar(c))
                ELSE IF peekChar(c) # ","
                     THEN Return("parseArray", n,
                                 ErrorAt("expected ',' or ']' in array", c), c)
                     ELSE Call(Frame("parseArray", "afterValue", n, NilNode),
                               "parseValue", skipWhitespace(c))
    /\ UNCHANGED <<runes, phase, result, dbg>>

\* Lines 226-244: from parseValue's return to the next call of parseValue.
parseArray_afterValue ==
    /\ Running("parseArray", "afterValue")
    /\ LET n == AppendChild(Top.n, ret.node)
           c == skipWhitespace(Cur)
       IN  IF ret.err # NilErr
           THEN Return("parseArray", Top.n, ret.err, Cur)
           ELSE IF peekChar(c) = "]"
                THEN Return("parseArray", Closed(n, consumeChar(c)), NilErr,
                            consumeChar(c))
                ELSE IF peekChar(c) # ","
                     THEN Return("parseArray", n,
                                 ErrorAt("expected ',' or ']' in array", c), c)
                     ELSE Call(Frame("parseArray", "afterValue", n, NilNode),
                               "parseValue", skipWhitespace(consumeChar(c)))
    /\ UNCHANGED <<runes, phase, result, dbg>>

---------------------------------------------------------------------------
(* DebugContext: parser.go:43-77. *)

\* Every node of the tree under n, n included.
RECURSIVE Nodes(_)
Nodes(n) == {n} \cup UNION {Nodes(n.Children[i]) : i \in 1 .. Len(n.Children)}

\* start := n.StartLine - 1 - linesBefore; if start < 0 { start = 0 }
windowStart(n, linesBefore) ==
    LET start == n.StartLine - 1 - linesBefore IN
    IF start < 0 THEN 0 ELSE start

\* windowEnd without the clamp to the last line.
windowEnd_noClamp(n, linesAfter, sourceLines) == n.EndLine - 1 + linesAfter

\* end := n.EndLine - 1 + linesAfter; if end >= len(sourceLines) { ... }
windowEnd(n, linesAfter, sourceLines) ==
    LET end == n.EndLine - 1 + linesAfter IN
    IF end >= Len(sourceLines) THEN Len(sourceLines) - 1 ELSE end

\* The caret line written under the line of the node's start or end.
Caret(out, caretPos, text, label) ==
    IF caretPos > 0 /\ caretPos <= Len(text)
    THEN Append(out, Spaces(caretPos) \o "^ " \o label \o "\n")
    ELSE out

\* for i := start; i <= end; i++ { ... }: out is the sequence of strings
\* written to the builder so far; sourceLines[i] with i out of range panics.
RECURSIVE debugLoop(_, _, _, _, _)
debugLoop(n, sourceLines, i, end, out) ==
    IF i > end
    THEN [panic |-> FALSE, out |-> out]
    ELSE IF i < 0 \/ i >= Len(sourceLines)
         THEN [panic |-> TRUE, out |-> out]
         ELSE LET lineNum == i + 1
                  text == sourceLines[i + 1]
                  o1 == Append(out, ToString(lineNum) \o ": " \o text \o "\n")
                  o2 == IF lineNum = n.StartLine
                        THEN Caret(o1, n.StartCol, text, "start")
                        ELSE o1
                  o3 == IF lineNum = n.EndLine
                        THEN Caret(o2, n.EndCol, text, "end")
                        ELSE o2
              IN  debugLoop(n, sourceLines, i + 1, end, o3)

\* n.DebugContext(linesBefore, linesAfter), on a node of the tree Parse
\* returned.  The result is the sequence of strings written to the builder.
\* The call reads the node and writes nothing the next call reads, so one
\* call per behaviour shows every result.
DebugContext ==
    /\ phase = "done"
    /\ result.node # NilNode
    /\ ~dbg.called
    /\ \E n \in Nodes(result.node), linesBefore, linesAfter \in 0 .. MaxContext :
           LET sourceLines == Split(runes)
               r == debugLoop(n, sourceLines, windowStart(n, linesBefore),
                              windowEnd(n, linesAfter, sourceLines), <<>>)
           IN  dbg' = [called |-> TRUE, panic |-> r.panic, out |-> r.out,
                       node |-> n, linesBefore |-> linesBefore,
                       linesAfter |-> linesAfter]
    /\ UNCHANGED <<runes, pos, line, col, stack, ret, phase, result>>

---------------------------------------------------------------------------
(* The cursor's operations, called on a parser that is not parsing. *)

ConsumeChar ==
    /\ phase = "new"
    /\ SetCur(consumeChar(Cur))
    /\ UNCHANGED <<runes, stack, ret, phase, result, dbg>>

SkipWhitespace ==
    /\ phase = "new"
    /\ SetCur(skipWhitespace(Cur))
    /\ UNCHANGED <<runes, stack, ret, phase, result, dbg>>

---------------------------------------------------------------------------
(* Inputs. *)

\* Every text made of at most k fragments of F.
RECURSIVE FragSeqs(_, _)
FragSeqs(F, k) ==
    IF k = 0
    THEN {""}
    ELSE LET S == FragSeqs(F, k - 1) IN S \cup {s \o f : s \in S, f \in F}

\* Fragment families: runes and short words that exercise one part of the
\* grammar each.
ArrayFrags == {"[", "]", ",", "1", " ", "\n", "true"}
KeyFrags == {"{", "}", "\"k\"", ":", ",", "1", "\""}
StringFrags == {"\"", "\\", "a", "\n", "[", ",", "{"}
LiteralFrags == {"true", "false", "null", "t", "f", "n", " "}
NumberFrags == {"-", "+", ".", "1", " ", "x", "["}
NestingFrags == {"[", "]", "{", "}", "\"k\":", ",", "1"}
PairFrags == {"{", "}", "\"k\":1", ",", "x"}

\* An input family is a set of fragments and the number of fragments its
\* inputs may hold beyond the bound.

\* Inputs of the parser.
ParserFamilies ==
    {<<ArrayFrags, 0>>, <<KeyFrags, 0>>, <<StringFrags, 0>>, <<LiteralFrags, 0>>,
     <<NumberFrags, 0>>, <<NestingFrags, 0>>, <<PairFrags, 1>>}

\* Inputs of the cursor specification: every class of rune the cursor tells
\* apart (newline, the other whitespace, anything else).
CursorFamilies == {<<{"\n", " ", "\t", "\r", "a"}, 0>>}

\* Inputs of the renderer specification: documents of several lines.
DebugFamilies == {<<{"\n", "[", "]", "{\"k\":1,", "true,", "null"}, 0>>}

---------------------------------------------------------------------------
(* Specifications. *)

\* NewParser(input): parser.go:91-101.
NewParser(input) ==
    /\ runes = input
    /\ pos = 0
    /\ line = 1
    /\ col = 1

\* A parser constructed on an input of at most k fragments (and the
\* family's allowance) of a family of fams.
InitWith(fams, k) ==
    /\ \E fam \in fams : \E input \in FragSeqs(fam[1], k + fam[2]) :
           NewParser(input)
    /\ stack = <<>>
    /\ ret = NoRet
    /\ phase = "new"
    /\ result = NoResult
    /\ dbg = NoDbg

Init == InitWith(ParserFamilies, MaxFrags)

InitCursor == InitWith(CursorFamilies, MaxCursorLen)

InitDebug == InitWith(DebugFamilies, MaxDebugFrags)

Next ==
    \/ Parse
    \/ ParseReturn
    \/ parseValue
    \/ parseObject_entry
    \/ parseObject_key
    \/ parseObject_afterKey
    \/ parseObject_afterValue
    \/ parseArray_entry
    \/ parseArray_afterValue
    \/ parseString
    \/ parseNumber
    \/ parseBoolean
    \/ parseNull

Spec == Init /\ [][Next]_vars

InitLive == InitWith(ParserFamilies, MaxLiveFrags)

\* Parse is a synchronous call: nothing but the parser's own steps can delay
\* it, so a step that can be taken is taken.
SpecLive == InitLive /\ [][Next]_vars /\ WF_vars(Next)

NextCursor ==
    \/ ConsumeChar
    \/ SkipWhitespace

SpecCursor == InitCursor /\ [][NextCursor]_vars

NextDebug ==
    \/ Next
    \/ DebugContext

SpecDebug == InitDebug /\ [][NextDebug]_vars

---------------------------------------------------------------------------
(* Vocabulary of the properties: the source text read back from spans.     *)

Max(a, b) == IF a >= b THEN a ELSE b

Min(a, b) == IF a <= b THEN a ELSE b

Whitespace == {" ", "\t", "\n", "\r"}

AllWhitespace(s) == \A i \in 1 .. Len(s) : At(s, i) \in Whitespace

\* The indices (1-based) of the newlines of the source.
Newlines == {i \in 1 .. Len(runes) : At(runes, i) = "\n"}

\* The number of runes before the first rune of line l (1-based).
LineOffset(l) ==
    IF l = 1
    THEN 0
    ELSE CHOOSE i \in Newlines : Cardinality({j \in Newlines : j <= i}) = l - 1

\* The number of runes before the position (line l, column c).
Offset(l, c) == LineOffset(l) + c - 1

StartOffset(n) == Offset(n.StartLine, n.StartCol)

EndOffset(n) == Offset(n.EndLine, n.EndCol)

\* The source text from offset a up to (not including) offset b.
Text(a, b) == SubSeq(runes, a + 1, b)

\* The nodes of the tree Parse returned.
ResultNodes == IF result.node = NilNode THEN {} ELSE Nodes(result.node)

---------------------------------------------------------------------------
(* C1: for every input Parse returns a node and no error, or an error;    *)
(* the node is absent exactly when the input is empty or all whitespace    *)
(* (the error then being the top-level "unexpected end of input"), and     *)
(* every other error comes with a non-nil partial node.  Nothing Parse     *)
(* does can panic: the cursor never leaves the input, the key node that    *)
(* parseObject attaches a value to is never nil, and neither is a child.   *)
C1_ParseTotal ==
    /\ pos \in 0 .. length
    /\ Running("parseObject", "afterValue") => Top.keyNode # NilNode
    /\ \A n \in ResultNodes :
           \A i \in 1 .. Len(n.Children) : n.Children[i] # NilNode
    /\ phase = "done" =>
           /\ result.err = NilErr => result.node # NilNode
           /\ result.node = NilNode <=>
                  /\ result.err = "unexpected end of input"
                  /\ AllWhitespace(runes)

\* Parse returned an error together with a partial tree that has a child.
C1_Witness ==
    /\ phase = "done"
    /\ result.err # NilErr
    /\ result.node # NilNode
    /\ result.node.Children # <<>>

---------------------------------------------------------------------------
(* C2: every node of the tree Parse returned, complete or partial, has     *)
(* startLine <= endLine, and startCol <= endCol when the lines are equal.  *)
C2_SpanOrdered ==
    phase = "done" =>
        \A n \in ResultNodes :
            /\ n.StartLine <= n.EndLine
            /\ n.StartLine = n.EndLine => n.StartCol <= n.EndCol

---------------------------------------------------------------------------
(* C3: when parseString reaches the end of input before the closing quote  *)
(* (also right after a backslash), its error contains "unexpected end of   *)
(* input in string", and the String node it returns holds every rune       *)
(* accumulated so far and ends at the cursor.                              *)

\* What a string body accumulates: a backslash is dropped and the rune after
\* it is kept as it is.
RECURSIVE Unescaped(_)
Unescaped(s) ==
    IF s = ""
    THEN ""
    ELSE IF At(s, 1) = "\\"
         THEN IF Len(s) = 1
              THEN ""
              ELSE At(s, 2) \o Unescaped(SubSeq(s, 3, Len(s)))
         ELSE At(s, 1) \o Unescaped(SubSeq(s, 2, Len(s)))

\* C3: a parseString that fails returns the error "unexpected end of input
\* in string...", the literal accumulated so far and the cursor as its end.
C3_UnterminatedString ==
    (ret.fn = "parseString" /\ ret.err # NilErr) =>
        /\ Contains(ret.err, "unexpected end of input in string")
        /\ ret.node.Type = NodeString
        /\ ret.node.Value = Unescaped(Text(StartOffset(ret.node) + 1, length))
        /\ ret.node.EndLine = line
        /\ ret.node.EndCol = col

---------------------------------------------------------------------------
(* C4: in parseObject and parseArray, once an element is parsed and the    *)
(* whitespace after it skipped, a next rune that is neither ',' nor the    *)
(* closing bracket (the end of input included) makes the function fail     *)
(* with "expected ',' or '}' in object" (resp. "... ']' in array") at the  *)
(* cursor's line and column, returning the container with exactly the      *)
(* elements completed so far, in source order.                             *)

\* The offset of the first rune at or after offset p that is no whitespace
\* (the length of the input when there is none).
SkipTo(p) ==
    CHOOSE k \in p .. length :
        /\ k = length \/ At(runes, k + 1) \notin Whitespace
        /\ \A j \in (p + 1) .. k : At(runes, j) \in Whitespace

\* The rune at offset p, NUL at the end of input.
RuneAt(p) == IF p < length THEN At(runes, p + 1) ELSE NUL

InSourceOrder(children) ==
    \A i \in 1 .. (Len(children) - 1) :
        StartOffset(children[i]) < StartOffset(children[i + 1])

ExpectedSeparator(fn, closer, msg, element) ==
    (/\ Running(fn, "afterValue")
     /\ ret.err = NilErr
     /\ RuneAt(SkipTo(pos)) \notin {",", closer})
    => /\ ret'.fn = fn
       /\ ret'.err = msg \o " at line " \o ToString(line')
                         \o " col " \o ToString(col')
       /\ pos' = SkipTo(pos)
       /\ line' = 1 + Cardinality({i \in Newlines : i <= pos'})
       /\ col' = pos' - LineOffset(line') + 1
       /\ ret'.node.Type = Top.n.Type
       /\ ret'.node.Children = Append(Top.n.Children, element)
       /\ InSourceOrder(ret'.node.Children)

\* C4: every step from such a state returns that error at the cursor with the
\* elements completed so far.
C4_ExpectedSeparator ==
    [][/\ ExpectedSeparator("parseArray", "]",
                            "expected ',' or ']' in array", ret.node)
       /\ ExpectedSeparator("parseObject", "}",
                            "expected ',' or '}' in object",
                            [Top.keyNode EXCEPT !.Children = <<ret.node>>])]_vars

\* parseObject failed for want of ',' or '}' after its second pair.
C4_Witness ==
    /\ ret.fn = "parseObject"
    /\ Contains(ret.err, "expected ',' or '}' in object")
    /\ Len(ret.node.Children) = 2

---------------------------------------------------------------------------
(* C5: when Parse succeeds, the literal of every Number, Boolean and Null  *)
(* node of the tree is the source text from the node's start position up   *)
(* to (not including) its end position.                                    *)
C5_ScalarLiteral ==
    (phase = "done" /\ result.err = NilErr) =>
        \A n \in ResultNodes :
            n.Type \in {NodeNumber, NodeBoolean, NodeNull} =>
                n.Value = Text(StartOffset(n), EndOffset(n))

\* Parse succeeded on an array that holds a Boolean on a later line.
C5_Witness ==
    /\ phase = "done"
    /\ result.err = NilErr
    /\ result.node.Type = NodeArray
    /\ \E n \in ResultNodes : n.Type = NodeBoolean /\ n.StartLine > 1

---------------------------------------------------------------------------
(* C6: in every tree Parse returns, each child of an Object is a String    *)
(* key node with exactly one child, its value; the children are the pairs  *)
(* of the source in source order, none dropped or merged: only whitespace  *)
(* lies between '{' and the first key, exactly one ',' (and whitespace)    *)
(* between a value and the next key, and only whitespace between the last  *)
(* value and the '}' of a closed object.                                   *)

Separator(t) ==
    \E i \in 1 .. Len(t) :
        /\ At(t, i) = ","
        /\ \A j \in (1 .. Len(t)) \ {i} : At(t, j) \in Whitespace

PairsOf(n) ==
    LET ch == n.Children IN
    /\ \A i \in 1 .. Len(ch) :
           /\ ch[i].Type = NodeString
           /\ Len(ch[i].Children) = 1
           /\ RuneAt(StartOffset(ch[i])) = "\""
    /\ ch # <<>> =>
           AllWhitespace(Text(StartOffset(n) + 1, StartOffset(ch[1])))
    /\ \A i \in 1 .. (Len(ch) - 1) :
           Separator(Text(EndOffset(ch[i].Children[1]), StartOffset(ch[i + 1])))
    /\ (ch # <<>> /\ n.EndLine > 0) =>
           /\ AllWhitespace(Text(EndOffset(ch[Len(ch)].Children[1]),
                                 EndOffset(n) - 1))
           /\ RuneAt(EndOffset(n) - 1) = "}"

\* C6: every Object of the returned tree holds the pairs of the source, in
\* order, each a String key with its value as only child.
C6_ObjectChildren ==
    phase = "done" =>
        \A n \in ResultNodes : n.Type = NodeObject => PairsOf(n)

\* Parse returned a closed object whose two children carry the same key.
C6_Witness ==
    /\ phase = "done"
    /\ result.node # NilNode
    /\ result.node.Type = NodeObject
    /\ result.node.EndLine > 0
    /\ Len(result.node.Children) = 2
    /\ result.node.Children[1].Value = result.node.Children[2].Value

---------------------------------------------------------------------------
(* C7: for every node of a tree Parse returned and all linesBefore and     *)
(* linesAfter >= 0, DebugContext writes exactly one "lineNumber: lineText" *)
(* line, in increasing order, for each 0-based line index from             *)
(* max(0, startLine-1-linesBefore) to min(lastLineIndex,                   *)
(* endLine-1+linesAfter), and never indexes outside the source lines.      *)

\* The index (0-based) of the last line of the source.
LastLineIndex == Cardinality(Newlines)

\* The text of the line of index j (0-based), without its newline.
LineText(j) ==
    Text(LineOffset(j + 1),
         IF j = LastLineIndex THEN length ELSE LineOffset(j + 2) - 1)

\* What DebugContext wrote, without the caret lines (these start with a
\* space, a source line with its number).
SourceLinesOf(out) == SelectSeq(out, LAMBDA s : At(s, 1) # " ")

\* C7: DebugContext wrote the lines of the clamped window, each once, in
\* order, and indexed no line outside the source.
C7_DebugWindow ==
    dbg.called =>
        LET lo == Max(0, dbg.node.StartLine - 1 - dbg.linesBefore)
            hi == Min(LastLineIndex, dbg.node.EndLine - 1 + dbg.linesAfter)
        IN  /\ ~dbg.panic
            /\ SourceLinesOf(dbg.out) =
                   [k \in 1 .. Max(0, hi - lo + 1) |->
                       ToString(lo + k) \o ": " \o LineText(lo + k - 1) \o "\n"]

\* DebugContext was asked for more lines than the source has on both sides
\* of a node, and wrote every line of a source of three lines or more.
C7_Witness ==
    /\ dbg.called
    /\ dbg.node.StartLine - 1 - dbg.linesBefore < 0
    /\ dbg.node.EndLine - 1 + dbg.linesAfter > LastLineIndex
    /\ LastLineIndex >= 2
    /\ Len(SourceLinesOf(dbg.out)) = LastLineIndex + 1

---------------------------------------------------------------------------
(* C8: after any sequence of cursor operations on an input of n runes,     *)
(* 0 <= pos <= n, line is 1 plus the number of newlines among the first    *)
(* pos runes, col is 1 plus the number of runes consumed since the last    *)
(* consumed newline (or the start), and consumeChar at the end of input    *)
(* changes none of pos, line, col.                                         *)
C8_CursorTracks ==
    LET consumed == {i \in Newlines : i <= pos}
        last == IF consumed = {}
                THEN 0
                ELSE CHOOSE i \in consumed : \A j \in consumed : j <= i
    IN  /\ pos \in 0 .. length
        /\ line = 1 + Cardinality(consumed)
        /\ col = 1 + (pos - last)
        /\ pos = length => consumeChar(Cur) = Cur

\* The cursor is at the end of an input, past a newline and a later rune.
C8_Witness ==
    /\ phase = "new"
    /\ pos = length
    /\ line > 1
    /\ col > 1

---------------------------------------------------------------------------
(* C9: parseNumber never fails.  When the first significant rune is none   *)
(* of '{', '[', '"', 't', 'f', 'n', parseValue hands over to parseNumber,  *)
(* which returns, without error, a Number node whose literal is the        *)
(* longest run of runes of {'-', '+', '.', digit} at the cursor; when the  *)
(* run is empty nothing is consumed and the node starts where it ends.     *)

NumberRunes == {"-", "+", ".", "0", "1", "2", "3", "4", "5", "6", "7", "8", "9"}

\* The longest run of number runes from offset o.
LongestRun(o) ==
    LET S == {k \in 0 .. (length - o) :
                  \A i \in 1 .. k : At(runes, o + i) \in NumberRunes}
    IN  Text(o, o + (CHOOSE k \in S : \A j \in S : j <= k))

NumberReturned ==
    ret.fn = "parseNumber" =>
        /\ ret.err = NilErr
        /\ ret.node.Type = NodeNumber
        /\ ret.node.Value = LongestRun(StartOffset(ret.node))
        /\ pos = StartOffset(ret.node) + Len(ret.node.Value)
        /\ ret.node.EndLine = line
        /\ ret.node.EndCol = col
        /\ ret.node.Value = "" =>
               /\ ret.node.StartLine = ret.node.EndLine
               /\ ret.node.StartCol = ret.node.EndCol

NumberDispatch ==
    /\ (/\ Running("parseValue", "entry")
        /\ SkipTo(pos) < length
        /\ RuneAt(SkipTo(pos)) \notin {"{", "[", "\"", "t", "f", "n"})
       => /\ Len(stack') = Len(stack)
          /\ stack'[Len(stack')].fn = "parseNumber"
          /\ pos' = SkipTo(pos)
    /\ Running("parseNumber", "entry")
       => /\ Len(stack') = Len(stack) - 1
          /\ ret'.fn = "parseNumber"
          /\ ret'.node.StartLine = line
          /\ ret'.node.StartCol = col

\* C9: parseNumber always returns the longest run without error, and
\* parseValue falls back to it.
C9_NumberFallback == [](NumberReturned) /\ [][NumberDispatch]_vars

\* parseNumber returned an empty literal with input left over.
C9_Witness ==
    /\ ret.fn = "parseNumber"
    /\ ret.node.Value = ""
    /\ pos < length

---------------------------------------------------------------------------
(* C10: Parse terminates on every input.  An iteration of the loop of      *)
(* parseObject or parseArray that does not return consumes at least one    *)
(* rune, also when its element is a Number that consumed nothing; the      *)
(* cursor never moves back and never passes the end of the input.          *)

LoopContinues ==
    /\ \/ Running("parseArray", "afterValue")
       \/ Running("parseObject", "afterValue")
    /\ Len(stack') >= Len(stack)

LoopProgress ==
    /\ pos' >= pos
    /\ pos' <= length
    /\ LoopContinues => pos' > pos

\* C10: Parse reaches its return, and every step keeps the cursor moving
\* forward within the input, strictly when a loop goes round.
C10_Terminates == <>(phase = "done") /\ [][LoopProgress]_vars

\* Parse returned an array whose loop went round after an element that is a
\* Number that consumed nothing.
C10_Witness ==
    /\ phase = "done"
    /\ result.node # NilNode
    /\ result.node.Type = NodeArray
    /\ Len(result.node.Children) = 2
    /\ result.node.Children[1].Type = NodeNumber
    /\ result.node.Children[1].Value = ""

===========================================================================
